---- MODULE Spec2Model ----
(***************************************************************************)
(* rust_roulette: the memory-mapping model (src/src/memmap.rs) and the     *)
(* program that drives it (src/src/main.rs).                               *)
(*                                                                         *)
(* Text is modelled as sequences of one-character strings, so that the     *)
(* parsing done by get_memmap (split_whitespace, split("-"),               *)
(* u64::from_str_radix, join(" ")) is computed character by character.     *)
(***************************************************************************)
EXTENDS Integers, Sequences, FiniteSets, TLC

VARIABLES
    pc,        \* position of main; "lib" when memmap is driven as a library
    pagesize,  \* main's pagesize (0 before the query)
    table,     \* library: the maps file the get_memmap call read
    ret,       \* result of the latest get_memmap call: "none", "Ok" or "Err"
    mappings,  \* the Vec<Mapping> the latest successful get_memmap returned
    diags,     \* library: the diagnostics the get_memmap call printed
    idx,       \* main: position of the reclassification loop in the snapshot
    call,      \* the latest set_permissions invocation (<<>> before any)
    wr,        \* main: the page the latest roulette round overwrote
    perm       \* the permission pipeline: parse, native flags, display

vars == <<pc, pagesize, table, ret, mappings, diags, idx, call, wr, perm>>

(***************************************************************************)
(* Bounds of the model.                                                    *)
(***************************************************************************)
\* longest mapping table get_memmap is driven with as a library, in lines
MaxLines == 3
\* longest mapping table main reads, in lines
MaxMainLines == 2
\* a wrapped page count is sampled by the page indexes 0..MaxWrapIdx
MaxWrapIdx == 1
\* longest string handed to PermissionSet::from
MaxPermLen == 4

(***************************************************************************)
(* Text helpers (the std functions get_memmap calls).                      *)
(***************************************************************************)
IsWhitespace(c) == c \in {" ", "\t"}

RECURSIVE SkipWs(_, _)
\* first position >= k of s holding a non-whitespace character (Len(s)+1 if none)
SkipWs(s, k) ==
    IF k > Len(s) \/ ~IsWhitespace(s[k]) THEN k ELSE SkipWs(s, k + 1)

RECURSIVE SkipWord(_, _)
\* first position >= k of s holding a whitespace character (Len(s)+1 if none)
SkipWord(s, k) ==
    IF k > Len(s) \/ IsWhitespace(s[k]) THEN k ELSE SkipWord(s, k + 1)

RECURSIVE SplitFrom(_, _)
SplitFrom(s, k) ==
    LET b == SkipWs(s, k) IN
    IF b > Len(s) THEN <<>>
    ELSE LET e == SkipWord(s, b) IN
         <<SubSeq(s, b, e - 1)>> \o SplitFrom(s, e)

\* str::split_whitespace: the maximal runs of non-whitespace characters
SplitWhitespace(s) == SplitFrom(s, 1)

RECURSIVE SplitOnFrom(_, _, _, _)
SplitOnFrom(s, d, b, k) ==
    IF k > Len(s) THEN <<SubSeq(s, b, Len(s))>>
    ELSE IF s[k] = d THEN <<SubSeq(s, b, k - 1)>> \o SplitOnFrom(s, d, k + 1, k + 1)
    ELSE SplitOnFrom(s, d, b, k + 1)

\* str::split(d) for a one-character pattern: empty parts are kept
SplitOn(s, d) == SplitOnFrom(s, d, 1, 1)

RECURSIVE JoinWith(_, _)
\* [&str]::join(sep)
JoinWith(fs, sep) ==
    IF Len(fs) = 0 THEN <<>>
    ELSE IF Len(fs) = 1 THEN fs[1]
    ELSE fs[1] \o sep \o JoinWith(Tail(fs), sep)

HexChars == <<"0", "1", "2", "3", "4", "5", "6", "7", "8", "9",
              "a", "b", "c", "d", "e", "f">>
HexUpper == <<"A", "B", "C", "D", "E", "F">>

\* char::to_digit(16), -1 for None
HexDigit(c) ==
    IF \E i \in 1..Len(HexChars) : HexChars[i] = c
    THEN (CHOOSE i \in 1..Len(HexChars) : HexChars[i] = c) - 1
    ELSE IF \E i \in 1..Len(HexUpper) : HexUpper[i] = c
    THEN (CHOOSE i \in 1..Len(HexUpper) : HexUpper[i] = c) + 9
    ELSE -1

RECURSIVE HexAccum(_, _, _)
\* the digit loop of from_str_radix: -1 on the first character that is no digit
HexAccum(s, k, acc) ==
    IF k > Len(s) THEN acc
    ELSE IF HexDigit(s[k]) < 0 THEN -1
    ELSE HexAccum(s, k + 1, acc * 16 + HexDigit(s[k]))

\* u64::from_str_radix(s, 16): an empty string, a lone sign or a character
\* that is no hex digit is an error; one leading "+" is accepted.  The tables
\* of the model hold at most 4 digits, so the 64-bit overflow error never arises.
FromStrRadix16(s) ==
    LET digits == IF Len(s) > 0 /\ s[1] = "+" THEN Tail(s) ELSE s IN
    IF Len(digits) = 0 \/ HexAccum(digits, 1, 0) < 0
    THEN [ok |-> FALSE, val |-> 0]
    ELSE [ok |-> TRUE, val |-> HexAccum(digits, 1, 0)]

(***************************************************************************)
(* Permission model.                                                       *)
(***************************************************************************)
NoPerms == [readable |-> FALSE, writeable |-> FALSE, executable |-> FALSE]

PermissionSet == [readable : BOOLEAN, writeable : BOOLEAN, executable : BOOLEAN]

\* one iteration of the loop of PermissionSet::from
PermStepWrongLetter(result, letter) ==
    CASE letter = "r" -> [result EXCEPT !.readable = TRUE]
      [] letter = "w" -> [result EXCEPT !.executable = TRUE]
      [] letter = "x" -> [result EXCEPT !.writeable = TRUE]
      [] OTHER -> result

PermStep(result, letter) ==
    CASE letter = "r" -> [result EXCEPT !.readable = TRUE]
      [] letter = "w" -> [result EXCEPT !.writeable = TRUE]
      [] letter = "x" -> [result EXCEPT !.executable = TRUE]
      [] OTHER -> result

RECURSIVE PermScan(_, _, _)
PermScan(s, k, result) ==
    IF k > Len(s) THEN result ELSE PermScan(s, k + 1, PermStep(result, s[k]))

\* PermissionSet::from
PermFrom(s) == PermScan(s, 1, NoPerms)

PROT_READ == 1
PROT_WRITE == 2
PROT_EXEC == 4

\* impl Into<ProtFlags> for PermissionSet: the set of protection bits
ToProtFlags(p) ==
    (IF p.readable THEN {PROT_READ} ELSE {})
    \cup (IF p.writeable THEN {PROT_WRITE} ELSE {})
    \cup (IF p.executable THEN {PROT_EXEC} ELSE {})

\* impl Display for PermissionSet
PermDisplay(p) ==
    <<IF p.readable THEN "r" ELSE "-",
      IF p.writeable THEN "w" ELSE "-",
      IF p.executable THEN "x" ELSE "-">>

(***************************************************************************)
(* Mapping.                                                                *)
(***************************************************************************)
\* Mapping::new
NewMapping(start_addr, end_addr, permissions, path) ==
    [start_addr |-> start_addr, end_addr |-> end_addr,
     permissions |-> PermFrom(permissions), path |-> path]

\* Mapping::size.  end_addr - start_addr on u64: when end_addr < start_addr the
\* subtraction panics in a build with overflow checks and wraps otherwise; a
\* negative value d stands for the wrapped value 2^64 + d.
Size(m) == m.end_addr - m.start_addr

SizeUnderflows(m) == m.end_addr < m.start_addr

\* the environment's answers to mprotect(2)
SysOutcomes == {"Ok", "EINVAL"}

\* Mapping::set_permissions without the NonNull::new check
SetPermissionsNoNullCheck(m, new_perms, sys, checked) ==
    IF SizeUnderflows(m) /\ checked
    THEN [result |-> "panic", syscall |-> <<>>, m |-> m]
    ELSE [result |-> IF sys = "Ok" THEN "Ok" ELSE "Err",
          syscall |-> <<[addr |-> m.start_addr, len |-> Size(m),
                         prot |-> ToProtFlags(new_perms)]>>,
          m |-> m]

\* Mapping::set_permissions(&mut self, new_perms).  sys is mprotect's answer,
\* checked says whether the build panics on arithmetic overflow.  The outcome
\* is the returned Result ("panic" for an aborted call), the system call made
\* (none, or its arguments) and the record afterwards.
SetPermissions(m, new_perms, sys, checked) ==
    IF m.start_addr = 0
    THEN [result |-> "Err", syscall |-> <<>>, m |-> m]
    ELSE IF SizeUnderflows(m) /\ checked
    THEN [result |-> "panic", syscall |-> <<>>, m |-> m]
    ELSE [result |-> IF sys = "Ok" THEN "Ok" ELSE "Err",
          syscall |-> <<[addr |-> m.start_addr, len |-> Size(m),
                         prot |-> ToProtFlags(new_perms)]>>,
          m |-> m]

(***************************************************************************)
(* get_memmap.                                                             *)
(***************************************************************************)
\* the path of a maps entry, truncated at its first space
PathOfFirstWord(fields) ==
    IF Len(fields) > 5 THEN fields[6] ELSE <<>>

\* the path of a maps entry: fields[5..].join(" "), or the empty string
PathOf(fields) ==
    IF Len(fields) > 5
    THEN JoinWith(SubSeq(fields, 6, Len(fields)), <<" ">>)
    ELSE <<>>

\* the least number of fields of a maps entry
MinFields == 5

\* the loop body of get_memmap for a line that was read, with min the least
\* number of fields: "err" returns the error (the ? on the collected Result),
\* "skip" prints a diagnostic and continues, "push" appends a Mapping
LineStepWith(line, min) ==
    LET fields == SplitWhitespace(line) IN
    IF Len(fields) < min
    THEN [tag |-> "skip", push |-> <<>>,
          diag |-> <<[kind |-> "fields", n |-> Len(fields), text |-> line]>>]
    ELSE LET parts == SplitOn(fields[1], "-")
             addresses == [i \in 1..Len(parts) |-> FromStrRadix16(parts[i])]
         IN
         IF \E i \in 1..Len(parts) : ~addresses[i].ok
         THEN [tag |-> "err", push |-> <<>>, diag |-> <<>>]
         ELSE IF Len(addresses) # 2
         THEN [tag |-> "skip", push |-> <<>>,
               diag |-> <<[kind |-> "addresses", n |-> Len(addresses),
                           text |-> fields[1]]>>]
         ELSE [tag |-> "push",
               push |-> <<NewMapping(addresses[1].val, addresses[2].val,
                                     fields[2], PathOf(fields))>>,
               diag |-> <<>>]

\* the loop body with the fields test off by one
LineStepSixFields(line) == LineStepWith(line, MinFields + 1)

\* the loop body of get_memmap
LineStep(line) == LineStepWith(line, MinFields)

RECURSIVE GetMemmapLoop(_, _, _, _)
\* the for loop over reader.lines(): reads[k] is the k-th item the reader
\* yields, an I/O error or a line
GetMemmapLoop(reads, k, results, ds) ==
    IF k > Len(reads) THEN [ok |-> TRUE, results |-> results, diags |-> ds]
    ELSE IF reads[k].io = "err"
    THEN [ok |-> FALSE, results |-> <<>>, diags |-> ds]
    ELSE LET step == LineStep(reads[k].text) IN
         IF step.tag = "err"
         THEN [ok |-> FALSE, results |-> <<>>, diags |-> ds]
         ELSE GetMemmapLoop(reads, k + 1, results \o step.push, ds \o step.diag)

\* get_memmap(pid) on a maps file: open says whether File::open succeeds
GetMemmap(open, reads) ==
    IF ~open THEN [ok |-> FALSE, results |-> <<>>, diags |-> <<>>]
    ELSE GetMemmapLoop(reads, 1, <<>>, <<>>)

(***************************************************************************)
(* The maps files the model reads.  A line is given by its fields and the  *)
(* whitespace around them (seps[1] leads, seps[i+1] follows fields[i]);    *)
(* its text is what the reader yields.  want is what the format of         *)
(* /proc/<pid>/maps says of the line, written out by hand: "entry" for a   *)
(* well-formed entry with its addresses, permissions and path, "short"     *)
(* for fewer than 5 fields, "badaddr" for 5 fields or more with an address *)
(* range that is not two hexadecimal numbers, "norange" for an entry whose *)
(* end address is not above its start address.                             *)
(***************************************************************************)
RECURSIVE Interleave(_, _, _)
Interleave(fields, seps, k) ==
    IF k > Len(fields) THEN seps[k]
    ELSE seps[k] \o fields[k] \o Interleave(fields, seps, k + 1)

LineText(fields, seps) == Interleave(fields, seps, 1)

Sp == <<" ">>

\* single spaces between the fields, nothing before the first or after the last
PlainSeps(n) == [k \in 1..(n + 1) |-> IF k = 1 \/ k = n + 1 THEN <<>> ELSE Sp]

Line(fields, seps, want) ==
    [io |-> "ok", text |-> LineText(fields, seps), fields |-> fields,
     seps |-> seps, want |-> want]

Plain(fields, want) == Line(fields, PlainSeps(Len(fields)), want)

Entry(s, e, perms, path) ==
    [kind |-> "entry", start |-> s, end |-> e, perms |-> perms, path |-> path]

Reject(kind) == [kind |-> kind, start |-> 0, end |-> 0, perms |-> <<>>, path |-> <<>>]

H0 == <<"0">>
H1000 == <<"1", "0", "0", "0">>
H2000 == <<"2", "0", "0", "0">>
H3000 == <<"3", "0", "0", "0">>
H5000 == <<"5", "0", "0", "0">>
H6000 == <<"6", "0", "0", "0">>
Dash == <<"-">>
Dev == <<"0", "8", ":", "0", "1">>
Ino == <<"7">>
BinCat == <<"/", "b", "i", "n", "/", "c", "a", "t">>
Heap == <<"[", "h", "e", "a", "p", "]">>
Lib == <<"/", "l", "i", "b">>
My == <<"/", "m", "y">>
LibSo == <<"l", "i", "b", ".", "s", "o">>

Pool == <<
    \* 1: 1000-2000 r-xp 0 08:01 7 /bin/cat
    Plain(<<H1000 \o Dash \o H2000, <<"r", "-", "x", "p">>, H0, Dev, Ino, BinCat>>,
          Entry(4096, 8192, <<"r", "-", "x">>, BinCat)),
    \* 2: 2000-3000 rw-p 0 08:01 7 [heap]
    Plain(<<H2000 \o Dash \o H3000, <<"r", "w", "-", "p">>, H0, Dev, Ino, Heap>>,
          Entry(8192, 12288, <<"r", "w", "-">>, Heap)),
    \* 3: 3000-5000 rw-s 0 08:01 7          (anonymous, two pages of 0x1000)
    Plain(<<H3000 \o Dash \o H5000, <<"r", "w", "-", "s">>, H0, Dev, Ino>>,
          Entry(12288, 20480, <<"r", "w", "-">>, <<>>)),
    \* 4: 0-1000 r--p 0 08:01 7 /my lib.so    (null start, a space in the path)
    Plain(<<H0 \o Dash \o H1000, <<"r", "-", "-", "p">>, H0, Dev, Ino, My, LibSo>>,
          Entry(0, 4096, <<"r", "-", "-">>, My \o Sp \o LibSo)),
    \* 5: "  5000-6000 --xp 0 08:01 7    /my \t lib.so " (runs of whitespace)
    Line(<<H5000 \o Dash \o H6000, <<"-", "-", "x", "p">>, H0, Dev, Ino, My, LibSo>>,
         <<<<" ", " ">>, Sp, Sp, Sp, Sp, <<" ", " ", " ", " ">>,
           <<" ", "\t", " ">>, Sp>>,
         Entry(20480, 24576, <<"-", "-", "x">>, My \o Sp \o LibSo)),
    \* 6: 1000-2000 r-xp 0                   (3 fields)
    Plain(<<H1000 \o Dash \o H2000, <<"r", "-", "x", "p">>, H0>>, Reject("short")),
    \* 7: the empty line
    Plain(<<>>, Reject("short")),
    \* 8: 10g0-2000 r-xp 0 08:01 7 /lib      (a part that is not hexadecimal)
    Plain(<<<<"1", "0", "g", "0">> \o Dash \o H2000, <<"r", "-", "x", "p">>,
            H0, Dev, Ino, Lib>>, Reject("badaddr")),
    \* 9: 1000 r-xp 0 08:01 7 /lib           (one number)
    Plain(<<H1000, <<"r", "-", "x", "p">>, H0, Dev, Ino, Lib>>, Reject("badaddr")),
    \* 10: 1000-2000-3000 rw-p 0 08:01 7 /lib (three numbers)
    Plain(<<H1000 \o Dash \o H2000 \o Dash \o H3000, <<"r", "w", "-", "p">>,
            H0, Dev, Ino, Lib>>, Reject("badaddr")),
    \* 11: 1000- r-xp 0 08:01 7 /lib          (an empty part)
    Plain(<<H1000 \o Dash, <<"r", "-", "x", "p">>, H0, Dev, Ino, Lib>>,
          Reject("badaddr")),
    \* 12: 2000-1000 rwxp 0 08:01 7 /lib      (end below start)
    Plain(<<H2000 \o Dash \o H1000, <<"r", "w", "x", "p">>, H0, Dev, Ino, Lib>>,
          [Entry(8192, 4096, <<"r", "w", "x">>, Lib) EXCEPT !.kind = "norange"]),
    \* 13: 1000-1000 ---p 0 08:01 7 /lib      (end equal to start)
    Plain(<<H1000 \o Dash \o H1000, <<"-", "-", "-", "p">>, H0, Dev, Ino, Lib>>,
          [Entry(4096, 4096, <<"-", "-", "-">>, Lib) EXCEPT !.kind = "norange"]),
    \* 14: the reader yields an I/O error
    [io |-> "err", text |-> <<>>, fields |-> <<>>, seps |-> <<>>,
     want |-> Reject("ioerr")]
>>

PoolIds == 1..Len(Pool)

\* the sequences of at most n pool lines
Tables(n) == UNION {[1..k -> PoolIds] : k \in 0..n}

\* what the reader yields for a table
Reads(t) == [k \in 1..Len(t) |-> Pool[t[k]]]

NoTable == [open |-> TRUE, lines |-> <<>>]

PermIdle == [pc |-> "idle", s |-> <<>>, pos |-> 0, result |-> NoPerms,
             flags |-> {}, text |-> <<>>]

Idle ==
    /\ pagesize = 0
    /\ table = NoTable
    /\ ret = "none"
    /\ mappings = <<>>
    /\ diags = <<>>
    /\ idx = 0
    /\ call = <<>>
    /\ wr = <<>>
    /\ perm = PermIdle

\* the maps files of at most n lines: one that cannot be opened, and every table
Files(n) ==
    {[open |-> FALSE, lines |-> <<>>]}
    \cup {[open |-> TRUE, lines |-> t] : t \in Tables(n)}

(***************************************************************************)
(* The permission pipeline on any string of at most MaxPermLen characters: *)
(* PermissionSet::from, then into ProtFlags, then Display.                 *)
(***************************************************************************)
PermAlphabet == {"r", "w", "x", "-", "p", "s"}

PermStrings == UNION {[1..k -> PermAlphabet] : k \in 0..MaxPermLen}

InitPerm ==
    /\ pc = "lib"
    /\ pagesize = 0
    /\ table = NoTable
    /\ ret = "none"
    /\ mappings = <<>>
    /\ diags = <<>>
    /\ idx = 0
    /\ call = <<>>
    /\ wr = <<>>
    /\ \E s \in PermStrings :
        perm = [pc |-> "from", s |-> s, pos |-> 1, result |-> NoPerms,
                flags |-> {}, text |-> <<>>]

\* one iteration of for letter in s.chars()
PermFromStep ==
    /\ perm.pc = "from"
    /\ perm.pos <= Len(perm.s)
    /\ perm' = [perm EXCEPT !.result = PermStep(perm.result, perm.s[perm.pos]),
                            !.pos = perm.pos + 1]
    /\ UNCHANGED <<pc, pagesize, table, ret, mappings, diags, idx, call, wr>>

\* PermissionSet::from returns result
PermFromReturn ==
    /\ perm.pc = "from"
    /\ perm.pos > Len(perm.s)
    /\ perm' = [perm EXCEPT !.pc = "into"]
    /\ UNCHANGED <<pc, pagesize, table, ret, mappings, diags, idx, call, wr>>

\* the set converted into ProtFlags
PermInto ==
    /\ perm.pc = "into"
    /\ perm' = [perm EXCEPT !.flags = ToProtFlags(perm.result), !.pc = "fmt"]
    /\ UNCHANGED <<pc, pagesize, table, ret, mappings, diags, idx, call, wr>>

\* the set displayed
PermFmt ==
    /\ perm.pc = "fmt"
    /\ perm' = [perm EXCEPT !.text = PermDisplay(perm.result), !.pc = "done"]
    /\ UNCHANGED <<pc, pagesize, table, ret, mappings, diags, idx, call, wr>>

NextPerm == PermFromStep \/ PermFromReturn \/ PermInto \/ PermFmt

SpecPerm == InitPerm /\ [][NextPerm]_vars

(***************************************************************************)
(* get_memmap driven as a library on any maps file of the model.           *)
(***************************************************************************)
InitRead == pc = "lib" /\ Idle

\* get_memmap(pid)
ReadMappings ==
    /\ pc = "lib"
    /\ ret = "none"
    /\ \E f \in Files(MaxLines) :
        LET r == GetMemmap(f.open, Reads(f.lines)) IN
        /\ table' = f
        /\ ret' = IF r.ok THEN "Ok" ELSE "Err"
        /\ mappings' = r.results
        /\ diags' = r.diags
    /\ UNCHANGED <<pc, pagesize, idx, call, wr, perm>>

NextRead == ReadMappings

SpecRead == InitRead /\ [][NextRead]_vars

(***************************************************************************)
(* set_permissions driven as a library: any PermissionSet on any Mapping   *)
(* record over a few addresses and paths (the fields of Mapping are pub).  *)
(***************************************************************************)
SampleAddrs == {0, 4096, 8192}

SamplePaths == {<<>>, Lib, Heap}

SampleMappings ==
    [start_addr : SampleAddrs, end_addr : SampleAddrs,
     permissions : PermissionSet, path : SamplePaths]

InitSetPerm ==
    /\ pc = "lib"
    /\ pagesize = 0
    /\ table = NoTable
    /\ ret = "Ok"
    /\ \E m \in SampleMappings : mappings = <<m>>
    /\ diags = <<>>
    /\ idx = 0
    /\ call = <<>>
    /\ wr = <<>>
    /\ perm = PermIdle

\* mappings[k].set_permissions(p)
CallSetPermissions ==
    /\ pc = "lib"
    /\ \E k \in 1..Len(mappings), p \in PermissionSet,
          sys \in SysOutcomes, checked \in BOOLEAN :
        LET out == SetPermissions(mappings[k], p, sys, checked) IN
        /\ call' = <<[k |-> k, req |-> p, before |-> mappings[k],
                      result |-> out.result, syscall |-> out.syscall]>>
        /\ mappings' = [mappings EXCEPT ![k] = out.m]
        /\ pc' = IF out.result = "panic" THEN "panic" ELSE pc
    /\ UNCHANGED <<pagesize, table, ret, diags, idx, wr, perm>>

NextSetPerm == CallSetPermissions

SpecSetPerm == InitSetPerm /\ [][NextSetPerm]_vars

(***************************************************************************)
(* main.  table and diags are not written: they are what the library       *)
(* specifications observe of one get_memmap call.                          *)
(***************************************************************************)
\* the values sysconf(PAGE_SIZE) may give
PageSizes == {4096, 8192}

\* mapping.path.starts_with("[") only for the path [stack]
IsSpecialStackOnly(m) == m.path = <<"[", "s", "t", "a", "c", "k", "]">>

\* mapping.path.starts_with("[")
IsSpecial(m) == Len(m.path) > 0 /\ m.path[1] = "["

\* the unfiltered snapshot
CandidatesUnfiltered(ms) == ms

\* candidates: the mappings of the snapshot that are not special, in order
Candidates(ms) == SelectSeq(ms, LAMBDA m : ~IsSpecial(m))

\* page_count = mapping.size() / pagesize, for a size that did not underflow
PageCount(m, ps) == Size(m) \div ps

\* PermissionSet::from(&"rwxp")
RwxP == PermFrom(<<"r", "w", "x", "p">>)

\* get_memmap on each maps file main may find, tabulated once
MainMemmap ==
    [f \in Files(MaxMainLines) |-> GetMemmap(f.open, Reads(f.lines))]

Init == pc = "start" /\ Idle

\* sysconf(PAGE_SIZE) gives a page size
StartOk ==
    /\ pc = "start"
    /\ \E ps \in PageSizes : pagesize' = ps
    /\ pc' = "enum1"
    /\ UNCHANGED <<table, ret, mappings, diags, idx, call, wr, perm>>

\* sysconf(PAGE_SIZE) gives Ok(None) or an error: main returns the error
StartFail ==
    /\ pc = "start"
    /\ pc' = "exit_err"
    /\ UNCHANGED <<pagesize, table, ret, mappings, diags, idx, call, wr, perm>>

\* the get_memmap(my_pid)? the reclassification loop iterates over
Enumerate1 ==
    /\ pc = "enum1"
    /\ \E f \in Files(MaxMainLines) :
        LET r == MainMemmap[f] IN
        /\ ret' = IF r.ok THEN "Ok" ELSE "Err"
        /\ mappings' = r.results
        /\ idx' = IF r.ok THEN 1 ELSE idx
        /\ pc' = IF r.ok THEN "reclassify" ELSE "exit_err"
    /\ UNCHANGED <<pagesize, table, diags, call, wr, perm>>

\* an iteration of the reclassification loop on a special mapping: continue
SkipSpecial ==
    /\ pc = "reclassify"
    /\ idx <= Len(mappings)
    /\ IsSpecial(mappings[idx])
    /\ idx' = idx + 1
    /\ UNCHANGED <<pc, pagesize, table, ret, mappings, diags, call, wr, perm>>

\* an iteration of the reclassification loop on any other mapping:
\* mapping.set_permissions(PermissionSet::from(&"rwxp"))?
Reclassify ==
    /\ pc = "reclassify"
    /\ idx <= Len(mappings)
    /\ ~IsSpecial(mappings[idx])
    /\ \E sys \in SysOutcomes, checked \in BOOLEAN :
        LET out == SetPermissions(mappings[idx], RwxP, sys, checked) IN
        /\ call' = <<[k |-> idx, req |-> RwxP, before |-> mappings[idx],
                      result |-> out.result, syscall |-> out.syscall]>>
        /\ mappings' = [mappings EXCEPT ![idx] = out.m]
        /\ idx' = IF out.result = "Ok" THEN idx + 1 ELSE idx
        /\ pc' = CASE out.result = "Ok" -> "reclassify"
                   [] out.result = "Err" -> "exit_err"
                   [] OTHER -> "panic"
    /\ UNCHANGED <<pagesize, table, ret, diags, wr, perm>>

\* the loop is over: the first snapshot and the loop variable are dropped
ReclassifyDone ==
    /\ pc = "reclassify"
    /\ idx > Len(mappings)
    /\ pc' = "enum2"
    /\ mappings' = <<>>
    /\ ret' = "none"
    /\ idx' = 0
    /\ UNCHANGED <<pagesize, table, diags, call, wr, perm>>

\* let mappings = get_memmap(my_pid)?
Enumerate2 ==
    /\ pc = "enum2"
    /\ \E f \in Files(MaxMainLines) :
        LET r == MainMemmap[f] IN
        /\ ret' = IF r.ok THEN "Ok" ELSE "Err"
        /\ mappings' = r.results
        /\ pc' = IF r.ok THEN "roulette" ELSE "exit_err"
    /\ UNCHANGED <<pagesize, table, diags, idx, call, wr, perm>>

\* read_line fails: expect panics
StdinError ==
    /\ pc = "roulette"
    /\ pc' = "panic"
    /\ UNCHANGED <<pagesize, table, ret, mappings, diags, idx, call, wr, perm>>

\* candidates is empty: choose gives None and unwrap panics
RoundNoCandidate ==
    /\ pc = "roulette"
    /\ Len(Candidates(mappings)) = 0
    /\ pc' = "panic"
    /\ UNCHANGED <<pagesize, table, ret, mappings, diags, idx, call, wr, perm>>

\* the chosen mapping has no whole page, or its size underflows in a build
\* with overflow checks: random_range(0..0), or the subtraction, panics
RoundPanic ==
    /\ pc = "roulette"
    /\ \E c \in 1..Len(Candidates(mappings)) :
        LET m == Candidates(mappings)[c] IN
        \/ SizeUnderflows(m)
        \/ ~SizeUnderflows(m) /\ PageCount(m, pagesize) = 0
    /\ pc' = "panic"
    /\ UNCHANGED <<pagesize, table, ret, mappings, diags, idx, call, wr, perm>>

\* a round: a candidate and one of its pages are drawn and the page is
\* overwritten byte by byte; fault says whether a write is refused by the
\* kernel, which kills the process in the middle of the page
Round ==
    /\ pc = "roulette"
    /\ \E c \in 1..Len(Candidates(mappings)), fault \in BOOLEAN :
        LET m == Candidates(mappings)[c] IN
        /\ ~SizeUnderflows(m)
        /\ \E page_idx \in 0..(PageCount(m, pagesize) - 1) :
            LET start_addr == m.start_addr + pagesize * page_idx
                end_addr == start_addr + pagesize
            IN wr' = <<[lo |-> start_addr, hi |-> end_addr, m |-> m]>>
        /\ pc' = IF fault THEN "killed" ELSE "roulette"
    /\ UNCHANGED <<pagesize, table, ret, mappings, diags, idx, call, perm>>

\* a round on a mapping whose size underflowed in a build without overflow
\* checks: the page count is about 2^64 / pagesize, and the page indexes
\* 0..MaxWrapIdx stand for the draw
RoundWrapped ==
    /\ pc = "roulette"
    /\ \E c \in 1..Len(Candidates(mappings)), fault \in BOOLEAN :
        LET m == Candidates(mappings)[c] IN
        /\ SizeUnderflows(m)
        /\ \E page_idx \in 0..MaxWrapIdx :
            LET start_addr == m.start_addr + pagesize * page_idx
                end_addr == start_addr + pagesize
            IN wr' = <<[lo |-> start_addr, hi |-> end_addr, m |-> m]>>
        /\ pc' = IF fault THEN "killed" ELSE "roulette"
    /\ UNCHANGED <<pagesize, table, ret, mappings, diags, idx, call, perm>>

Next ==
    \/ StartOk
    \/ StartFail
    \/ Enumerate1
    \/ SkipSpecial
    \/ Reclassify
    \/ ReclassifyDone
    \/ Enumerate2
    \/ StdinError
    \/ RoundNoCandidate
    \/ RoundPanic
    \/ Round
    \/ RoundWrapped

Spec == Init /\ [][Next]_vars

(***************************************************************************)
(* What the maps format says of a table, from the hand-written want of its *)
(* lines (none of this reads the parser above).                            *)
(***************************************************************************)
WantPerms(w) ==
    [readable |-> w[1] = "r", writeable |-> w[2] = "w", executable |-> w[3] = "x"]

WantMapping(l) ==
    [start_addr |-> l.want.start, end_addr |-> l.want.end,
     permissions |-> WantPerms(l.want.perms), path |-> l.want.path]

KindOf(id) == Pool[id].want.kind

\* the lines of table t of a kind in kinds, in order
LinesOfKind(t, kinds) == SelectSeq(t, LAMBDA id : KindOf(id) \in kinds)

WantMappings(t) ==
    LET ents == LinesOfKind(t, {"entry"}) IN
    [i \in 1..Len(ents) |-> WantMapping(Pool[ents[i]])]

OnlyKinds(t, kinds) == \A k \in 1..Len(t) : KindOf(t[k]) \in kinds

RECURSIVE PrefixLen(_, _)
\* the length of the text of l up to the start of field k
PrefixLen(l, k) ==
    IF k = 1 THEN Len(l.seps[1])
    ELSE PrefixLen(l, k - 1) + Len(l.fields[k - 1]) + Len(l.seps[k])

\* the text of l from its 6th field to the end of the line
RawPathText(l) == SubSeq(l.text, PrefixLen(l, 6) + 1, Len(l.text))

\* l has a path whose words are one space apart and that ends the line
SingleSpacedPath(l) ==
    /\ Len(l.fields) > 5
    /\ \A k \in 7..Len(l.fields) : l.seps[k] = Sp
    /\ l.seps[Len(l.fields) + 1] = <<>>

Bracketed(path) == Len(path) > 0 /\ Head(path) = "["

(***************************************************************************)
(* Claims.                                                                 *)
(***************************************************************************)
\* C1 (as claimed): after a set_permissions call that returned Ok, on a
\* mapping with a non-zero start address (and a range that is not empty), the
\* record's permissions equal the requested PermissionSet.
C1_RecordUpdatedOnSuccess ==
    \A c \in 1..Len(call) :
        (/\ call[c].before.start_addr # 0
         /\ call[c].before.end_addr > call[c].before.start_addr
         /\ call[c].result = "Ok")
            => mappings[call[c].k].permissions = call[c].req

\* C2 (as claimed): a maps file that opens and reads without I/O error, made
\* of entries, short lines and lines of 5 fields or more whose address range
\* is not two hexadecimal numbers, is read successfully: get_memmap returns
\* the mappings of the entries in order and one diagnostic per other line.
C2_BadAddressSkipped ==
    (/\ ret # "none"
     /\ table.open
     /\ OnlyKinds(table.lines, {"entry", "short", "badaddr"}))
        => /\ ret = "Ok"
           /\ mappings = WantMappings(table.lines)
           /\ Len(diags) = Len(LinesOfKind(table.lines, {"short", "badaddr"}))

\* C3 (as claimed): main never returns with an error because a
\* set_permissions call of the reclassification pass failed; after a failed
\* call the pass goes on.
C3_FailureNotFatalToPass ==
    ~(pc = "exit_err" /\ call # <<>> /\ call[1].result = "Err")

\* C4: a set_permissions call on a mapping whose start_addr is 0 returns an
\* error, makes no system call, and leaves the record unchanged, whatever
\* PermissionSet is requested.
C4_NullStartRejected ==
    \A c \in 1..Len(call) :
        call[c].before.start_addr = 0
            => /\ call[c].result = "Err"
               /\ call[c].syscall = <<>>
               /\ mappings[call[c].k] = call[c].before

C4_Witness ==
    /\ call # <<>>
    /\ call[1].before.start_addr = 0
    /\ call[1].before.end_addr = 4096
    /\ call[1].req = [readable |-> TRUE, writeable |-> FALSE, executable |-> FALSE]

\* C5: on a maps file made of entries and of lines with fewer than 5 fields,
\* get_memmap succeeds, returns exactly the mappings of the entries in the
\* order of their lines, and prints exactly one fields diagnostic per short
\* line, in order, each quoting its line.
C5_ShortLinesSkipped ==
    (/\ ret # "none"
     /\ table.open
     /\ OnlyKinds(table.lines, {"entry", "short"}))
        => LET short == LinesOfKind(table.lines, {"short"}) IN
           /\ ret = "Ok"
           /\ mappings = WantMappings(table.lines)
           /\ Len(diags) = Len(short)
           /\ \A d \in 1..Len(diags) :
                /\ diags[d].kind = "fields"
                /\ diags[d].text = Pool[short[d]].text
                /\ diags[d].n = Len(Pool[short[d]].fields)

C5_Witness ==
    /\ ret = "Ok"
    /\ table.lines = <<1, 6, 3>>
    /\ Len(mappings) = 2
    /\ mappings[1].start_addr = 4096
    /\ mappings[2].start_addr = 12288
    /\ Len(diags) = 1

\* C6 (as claimed): every Mapping get_memmap returns has end_addr > start_addr.
C6_EndAboveStart ==
    ret = "Ok" =>
        \A i \in 1..Len(mappings) : mappings[i].end_addr > mappings[i].start_addr

\* a 4-character permission string of the maps format
ValidPermString(s) ==
    /\ Len(s) = 4
    /\ s[1] \in {"r", "-"}
    /\ s[2] \in {"w", "-"}
    /\ s[3] \in {"x", "-"}
    /\ s[4] \in {"p", "s"}

\* C7: for each of the 16 permission strings of the maps format, parsing,
\* converting to native flags and displaying gives flags that hold the read,
\* write and execute bit exactly when the 1st, 2nd and 3rd character is r, w
\* and x, and a 3-character text equal to the first three characters.
C7_PermRoundTrip ==
    (perm.pc = "done" /\ ValidPermString(perm.s))
        => /\ perm.text = SubSeq(perm.s, 1, 3)
           /\ (PROT_READ \in perm.flags) <=> (perm.s[1] = "r")
           /\ (PROT_WRITE \in perm.flags) <=> (perm.s[2] = "w")
           /\ (PROT_EXEC \in perm.flags) <=> (perm.s[3] = "x")
           /\ perm.flags \subseteq {PROT_READ, PROT_WRITE, PROT_EXEC}

C7_Witness ==
    /\ perm.pc = "done"
    /\ perm.s = <<"-", "w", "x", "s">>
    /\ perm.text = <<"-", "w", "x">>
    /\ perm.flags = {PROT_WRITE, PROT_EXEC}

\* C8: when get_memmap succeeds on a table without norange lines, the i-th
\* mapping comes from the i-th entry line and its path is that line's fields
\* from the 6th on, one space apart: the empty path for a line of 5 fields,
\* and the very text of the line from the 6th field on when the words of the
\* path are one space apart.
C8_PathIsFieldsRejoined ==
    (/\ ret = "Ok"
     /\ OnlyKinds(table.lines, {"entry", "short", "badaddr"}))
        => LET ents == LinesOfKind(table.lines, {"entry"}) IN
           /\ Len(mappings) = Len(ents)
           /\ \A i \in 1..Len(ents) :
                LET l == Pool[ents[i]] IN
                /\ mappings[i].path = l.want.path
                /\ Len(l.fields) = 5 => mappings[i].path = <<>>
                /\ SingleSpacedPath(l) => mappings[i].path = RawPathText(l)

C8_Witness ==
    /\ ret = "Ok"
    /\ table.lines = <<4, 3, 5>>
    /\ mappings[1].path = <<"/", "m", "y", " ", "l", "i", "b", ".", "s", "o">>
    /\ mappings[2].path = <<>>
    /\ mappings[3].path = mappings[1].path

\* C9: set_permissions is never invoked on a mapping whose path starts
\* with "[".
C9_SpecialNeverReclassified ==
    \A c \in 1..Len(call) : ~Bracketed(call[c].before.path)

\* a special mapping was passed over and a later mapping was reclassified
C9_Witness ==
    /\ pc = "reclassify"
    /\ call # <<>>
    /\ call[1].k = 2
    /\ Bracketed(mappings[1].path)
    /\ idx = 3

\* the snapshot has a mapping that is not special and every size is a
\* positive multiple of the page size
C10_Pre ==
    /\ \E j \in 1..Len(mappings) : ~Bracketed(mappings[j].path)
    /\ \A j \in 1..Len(mappings) :
        /\ mappings[j].end_addr > mappings[j].start_addr
        /\ (mappings[j].end_addr - mappings[j].start_addr) % pagesize = 0

\* C10: under C10_Pre, the range a roulette round overwrites is page k of a
\* mapping m of the second snapshot that is not special, with
\* 0 <= k < size/pagesize, and lies within [m.start_addr, m.end_addr).
C10_WriteWithinCandidatePage ==
    (pc \in {"roulette", "killed"} /\ wr # <<>> /\ C10_Pre)
        => \E j \in 1..Len(mappings) :
            LET m == mappings[j] IN
            /\ ~Bracketed(m.path)
            /\ \E k \in 0..(((m.end_addr - m.start_addr) \div pagesize) - 1) :
                /\ wr[1].lo = m.start_addr + k * pagesize
                /\ wr[1].hi = m.start_addr + (k + 1) * pagesize
            /\ m.start_addr <= wr[1].lo
            /\ wr[1].hi <= m.end_addr

\* the second page of the two-page mapping was overwritten, beside a special one
C10_Witness ==
    /\ pc = "roulette"
    /\ C10_Pre
    /\ \E j \in 1..Len(mappings) : Bracketed(mappings[j].path)
    /\ wr # <<>>
    /\ wr[1].lo = 16384
    /\ wr[1].hi = 20480

====
